---- MODULE Spec2Model ----
(***************************************************************************)
(* A model of EasyPdfForYou: the translators of                            *)
(* easypdfforyou/core/translator.py, the PdfExtractor of                   *)
(* easypdfforyou/core/pdf_extractor.py, the BilingualGenerator of          *)
(* easypdfforyou/core/bilingual_generator.py, the OcrEngine of             *)
(* easypdfforyou/core/ocr_engine.py, the command-line and web front ends   *)
(* of easypdfforyou/cli/__init__.py and easypdfforyou/web/app.py, and the  *)
(* TranslationService that cli/main.py imports.                            *)
(*                                                                         *)
(* A text is a sequence of one-character strings.  Every operation of the  *)
(* code is one action; its inputs are drawn with \E from bounded sets and  *)
(* the call, with what it returned or raised, is recorded in the           *)
(* component's "call" variable.  The external collaborators (translation   *)
(* provider, PDF reader, Tesseract) answer nondeterministically.           *)
(***************************************************************************)
EXTENDS Integers, Sequences, FiniteSets, TLC

VARIABLES
  translator,   \* the Translator instance: None, or its kind and fields
  tcall,        \* the last translator call: op, arguments, outcome
  tlog,         \* provider calls and sleeps of the last translator call
  extractor,    \* PdfExtractor: _doc (None or the open document), _file_path
  disk,         \* the PDF file on disk, as the PDF reader presents it
  handles,      \* how many documents fitz.open returned and nobody closed
  ecall,        \* the last extractor call: op, arguments, outcome
  outFile,      \* the file at output_path: None, or what was written to it
  gcall,        \* the last BilingualGenerator call: op, arguments, outcome
  tesseract,    \* whether the Tesseract executable answers the version probe
  ocr,          \* the OcrEngine instance: None, or its fields
  ocall,        \* the last OcrEngine call: op, arguments, outcome
  fcall,        \* the last front-end operation: op, what it did, outcome
  service,      \* the TranslationService instance: None, or its providers
  scall         \* the last TranslationService call: op, arguments, outcome

vars == <<translator, tcall, tlog, extractor, disk, handles, ecall, outFile,
          gcall, tesseract, ocr, ocall, fcall, service, scall>>

None == "None"
\* No instance constructed; no call in progress.
NoInstance == [kind |-> None]
NoCall == [op |-> None]

(***************************************************************************)
(* Bounds of the model.                                                    *)
(***************************************************************************)
\* Longest text handed to translate and _split_text.
MaxLen == 4
\* Stand-in for max_length=3000 of OpenRouterTranslator.translate, scaled to
\* the texts of the model.
ChunkLimit == 3
\* Largest max_length _split_text is called with directly.
MaxSplitLen == 3
\* Longest list handed to translate_batch.
MaxBatch == 2
\* Provider calls of one operation whose outcome is chosen freely; later
\* calls succeed.
MaxCalls == 3

(***************************************************************************)
(* Texts and the str operations the code uses.                             *)
(***************************************************************************)
NL == "\n"
Alphabet == {"a", ".", " ", NL}

\* Python's str.isspace for one character (also the regex class \s).
IsSpace(c) == c \in {" ", NL, "\t", "\r"}

\* The sentence ends of the regex of _split_text; its three full-width
\* forms (U+3002, U+FF01, U+FF1F) are written by name.
SentenceEnd == {".", "!", "?", "U+3002", "U+FF01", "U+FF1F"}

TextsOver(alphabet, n) == UNION {[1..k -> alphabet] : k \in 0..n}

Texts == TextsOver(Alphabet, MaxLen)

RECURSIVE LStrip(_)
LStrip(s) ==
  IF s = <<>> THEN <<>>
  ELSE IF IsSpace(Head(s)) THEN LStrip(Tail(s)) ELSE s

RECURSIVE RStrip(_)
RStrip(s) ==
  IF s = <<>> THEN <<>>
  ELSE IF IsSpace(s[Len(s)]) THEN RStrip(SubSeq(s, 1, Len(s) - 1)) ELSE s

\* str.strip()
Strip(s) == RStrip(LStrip(s))

\* sep.join(parts)
RECURSIVE Join(_, _)
Join(sep, parts) ==
  IF parts = <<>> THEN <<>>
  ELSE IF Len(parts) = 1 THEN parts[1]
  ELSE parts[1] \o sep \o Join(sep, Tail(parts))

\* str.split(sep) for a one-character sep: always at least one piece.
RECURSIVE SplitOn(_, _, _, _)
SplitOn(s, sep, i, cur) ==
  IF i > Len(s) THEN <<cur>>
  ELSE IF s[i] = sep THEN <<cur>> \o SplitOn(s, sep, i + 1, <<>>)
  ELSE SplitOn(s, sep, i + 1, Append(cur, s[i]))

\* The first index >= i of s that holds no whitespace, Len(s) + 1 if none.
RECURSIVE SkipSpace(_, _)
SkipSpace(s, i) ==
  IF i > Len(s) THEN i
  ELSE IF IsSpace(s[i]) THEN SkipSpace(s, i + 1) ELSE i

\* re.split(r'(?<=[.!?...])\s+', text): a match is a maximal run of
\* whitespace that directly follows a sentence end; the pieces between the
\* matches are returned, empty pieces included.
RECURSIVE ReSplit(_, _, _)
ReSplit(text, i, cur) ==
  IF i > Len(text) THEN <<cur>>
  ELSE IF IsSpace(text[i]) /\ i > 1 /\ text[i - 1] \in SentenceEnd
       THEN <<cur>> \o ReSplit(text, SkipSpace(text, i), <<>>)
       ELSE ReSplit(text, i + 1, Append(cur, text[i]))

\* The loop of _split_text over the sentences from index k on.
RECURSIVE SplitLoop(_, _, _, _, _)
SplitLoop(sentences, k, current_chunk, chunks, max_length) ==
  IF k > Len(sentences)
  THEN IF current_chunk # <<>> THEN Append(chunks, Strip(current_chunk))
       ELSE chunks
  ELSE LET sentence == sentences[k] IN
       IF Len(current_chunk) + Len(sentence) < max_length
       THEN SplitLoop(sentences, k + 1, current_chunk \o sentence \o <<" ">>,
                      chunks, max_length)
       ELSE SplitLoop(sentences, k + 1, sentence \o <<" ">>,
                      IF current_chunk # <<>>
                      THEN Append(chunks, Strip(current_chunk)) ELSE chunks,
                      max_length)

\* Translator._split_text
SplitText(text, max_length) ==
  IF Len(text) <= max_length THEN <<text>>
  ELSE SplitLoop(ReSplit(text, 1, <<>>), 1, <<>>, <<>>, max_length)

(***************************************************************************)
(* The translation provider: googletrans behind GoogleTranslator, the HTTP *)
(* endpoint behind OpenRouterTranslator.  One operation makes provider     *)
(* calls 1, 2, ...; the calls in prov.fails raise prov.kind, every other   *)
(* call answers Respond(prov.mode, text).                                  *)
(***************************************************************************)
FailKinds == {"RequestException", "KeyError"}
Modes == {"ident", "upper"}
Provs == [fails : SUBSET (1..MaxCalls), kind : FailKinds, mode : Modes]

\* What the provider answers to text when it answers: the text itself, or
\* the text with every letter translated.
Respond(mode, text) ==
  IF mode = "ident" THEN text
  ELSE [i \in 1..Len(text) |-> IF text[i] = "a" THEN "A" ELSE text[i]]

CallEv(text, ok) == [ev |-> "call", text |-> text, ok |-> ok]
SleepEv(ms) == [ev |-> "sleep", ms |-> ms]

\* The provider calls among the events of log.
CallCount(log) == Cardinality({i \in 1..Len(log) : log[i].ev = "call"})

\* time.sleep(0.5) of GoogleTranslator.translate_batch, in milliseconds.
GoogleDelayMs == 500
\* OpenRouterTranslator.RATE_LIMIT_DELAY, in milliseconds.
RATE_LIMIT_DELAY == 1000

TranslationResult(original_text, translated_text, provider) ==
  [original_text |-> original_text, translated_text |-> translated_text,
   provider |-> provider]

Returned(result, log) == [raised |-> None, result |-> result, log |-> log]
Raised(exc, log) == [raised |-> exc, result |-> None, log |-> log]

\* GoogleTranslator.translate; n0 provider calls were made before it.
GoogleTranslate(tr, text, prov, n0) ==
  IF Strip(text) = <<>>
  THEN Returned(TranslationResult(text, <<>>, "google"), <<>>)
  ELSE IF tr.googletrans
  THEN IF (n0 + 1) \in prov.fails
       THEN Raised(prov.kind, <<CallEv(text, FALSE)>>)
       ELSE Returned(TranslationResult(text, Respond(prov.mode, text),
                                       "google"),
                     <<CallEv(text, TRUE)>>)
  ELSE Returned(TranslationResult(text, text, "google_fallback"), <<>>)

\* Faulty variant of OpenRouterLoop: each translated chunk is put in front of
\* the earlier ones.
RECURSIVE OpenRouterLoop_Prepend(_, _, _, _, _, _)
OpenRouterLoop_Prepend(chunks, k, translated_chunks, log, prov, n0) ==
  IF k > Len(chunks)
  THEN [raised |-> None, translated_chunks |-> translated_chunks, log |-> log]
  ELSE IF (n0 + CallCount(log) + 1) \in prov.fails
  THEN [raised |-> prov.kind, translated_chunks |-> translated_chunks,
        log |-> Append(log, CallEv(chunks[k], FALSE))]
  ELSE OpenRouterLoop_Prepend(chunks, k + 1,
         <<Strip(Respond(prov.mode, chunks[k]))>> \o translated_chunks,
         log \o <<CallEv(chunks[k], TRUE), SleepEv(RATE_LIMIT_DELAY)>>,
         prov, n0)

\* The loop of OpenRouterTranslator.translate over the chunks from k on.
RECURSIVE OpenRouterLoop(_, _, _, _, _, _)
OpenRouterLoop(chunks, k, translated_chunks, log, prov, n0) ==
  IF k > Len(chunks)
  THEN [raised |-> None, translated_chunks |-> translated_chunks, log |-> log]
  ELSE IF (n0 + CallCount(log) + 1) \in prov.fails
  THEN [raised |-> prov.kind, translated_chunks |-> translated_chunks,
        log |-> Append(log, CallEv(chunks[k], FALSE))]
  ELSE OpenRouterLoop(chunks, k + 1,
         Append(translated_chunks, Strip(Respond(prov.mode, chunks[k]))),
         log \o <<CallEv(chunks[k], TRUE), SleepEv(RATE_LIMIT_DELAY)>>,
         prov, n0)

\* The separator OpenRouterTranslator.translate joins the translated chunks
\* with.
JoinSeparator == <<" ">>

\* OpenRouterTranslator.translate; n0 provider calls were made before it.
OpenRouterTranslate(tr, text, prov, n0) ==
  IF Strip(text) = <<>>
  THEN Returned(TranslationResult(text, <<>>, "openrouter"), <<>>)
  ELSE IF tr.api_key \in {None, ""}
  THEN Raised("ValueError", <<>>)
  ELSE LET chunks == SplitText(text, ChunkLimit)
           r == OpenRouterLoop(chunks, 1, <<>>, <<>>, prov, n0)
       IN IF r.raised # None THEN Raised(r.raised, r.log)
          ELSE Returned(TranslationResult(text,
                          Join(JoinSeparator, r.translated_chunks),
                          "openrouter:model"),
                        r.log)

\* translate of the instance tr.
TranslateOf(tr, text, prov, n0) ==
  IF tr.kind = "google" THEN GoogleTranslate(tr, text, prov, n0)
  ELSE OpenRouterTranslate(tr, text, prov, n0)

\* Faulty variant of ErrorResult: the except branch gives an empty
\* translation, as the blank-text branch of translate does.
ErrorResult_Empty(tr, text) ==
  TranslationResult(text, <<>>,
    IF tr.kind = "google" THEN "google_error" ELSE "openrouter:model_error")

\* The result translate_batch appends in its except branch.
ErrorResult(tr, text) ==
  TranslationResult(text, text,
    IF tr.kind = "google" THEN "google_error" ELSE "openrouter:model_error")

\* The loop of translate_batch (both classes) over the texts from k on.
RECURSIVE BatchLoop(_, _, _, _, _, _)
BatchLoop(tr, texts, k, results, log, prov) ==
  IF k > Len(texts) THEN Returned(results, log)
  ELSE LET text == texts[k]
           r == TranslateOf(tr, text, prov, CallCount(log))
       IN IF r.raised = None
          THEN BatchLoop(tr, texts, k + 1, Append(results, r.result),
                 IF tr.kind = "google"
                 THEN log \o r.log \o <<SleepEv(GoogleDelayMs)>>
                 ELSE log \o r.log,
                 prov)
          ELSE BatchLoop(tr, texts, k + 1,
                 Append(results, ErrorResult(tr, text)), log \o r.log, prov)

\* translate_batch of the instance tr.
TranslateBatchOf(tr, texts, prov) == BatchLoop(tr, texts, 1, <<>>, <<>>, prov)

\* The texts translate_batch is tried on: the texts of at most one character
\* and one text of two sentences, which OpenRouter translates in two chunks.
TwoChunks == <<"a", "a", ".", " ", "a", "a", ".">>
BatchTexts == TextsOver(Alphabet, 1) \cup {TwoChunks}
BatchLists == UNION {[1..k -> BatchTexts] : k \in 0..MaxBatch}

(***************************************************************************)
(* The translator's actions.                                               *)
(***************************************************************************)
TVars == <<translator, tcall, tlog>>
EVars == <<extractor, disk, handles, ecall>>
GVars == <<outFile, gcall>>
OVars == <<tesseract, ocr, ocall>>
FVars == <<fcall>>
SVars == <<service, scall>>

TIdle == tcall = NoCall

\* GoogleTranslator.__init__ with _init_translator: the import of googletrans
\* succeeds or raises ImportError.
NewGoogleTranslator ==
  /\ TIdle
  /\ \E imported \in BOOLEAN :
       translator' = [kind |-> "google", api_key |-> None,
                      googletrans |-> imported]
  /\ UNCHANGED <<tcall, tlog, EVars, GVars, OVars, FVars, SVars>>

\* OpenRouterTranslator.__init__: stores whatever api_key it is given.
NewOpenRouterTranslator ==
  /\ TIdle
  /\ \E api_key \in {"sk-key", "", None} :
       translator' = [kind |-> "openrouter", api_key |-> api_key,
                      googletrans |-> FALSE]
  /\ UNCHANGED <<tcall, tlog, EVars, GVars, OVars, FVars, SVars>>

\* The provider names create_translator is tried on.
ProviderNames == {"google", "openrouter", "OpenRouter", "deepl"}

\* provider.lower() on the names above.
Lower(provider) ==
  IF provider = "OpenRouter" THEN "openrouter" ELSE provider

\* create_translator(provider, api_key); imported tells whether googletrans
\* can be imported by GoogleTranslator.__init__.
CreateTranslatorOf(provider, api_key, imported) ==
  IF Lower(provider) = "google"
  THEN Returned([kind |-> "google", api_key |-> api_key,
                 googletrans |-> imported], <<>>)
  ELSE IF Lower(provider) = "openrouter"
  THEN IF api_key \in {None, ""}
       THEN Raised("ValueError", <<>>)
       ELSE Returned([kind |-> "openrouter", api_key |-> api_key,
                      googletrans |-> FALSE], <<>>)
  ELSE Raised("ValueError", <<>>)

CreateTranslator ==
  /\ TIdle
  /\ \E provider \in ProviderNames, api_key \in {"sk-key", "", None},
        imported \in BOOLEAN :
       LET r == CreateTranslatorOf(provider, api_key, imported) IN
       /\ tcall' = [op |-> "create_translator", provider |-> provider,
                    api_key |-> api_key, raised |-> r.raised]
       /\ translator' = IF r.raised = None THEN r.result ELSE translator
  /\ UNCHANGED <<tlog, EVars, GVars, OVars, FVars, SVars>>

Translate ==
  /\ TIdle /\ translator.kind # None
  /\ \E text \in Texts, prov \in Provs :
       LET r == TranslateOf(translator, text, prov, 0) IN
       /\ tcall' = [op |-> "translate", text |-> text, mode |-> prov.mode,
                    raised |-> r.raised, result |-> r.result]
       /\ tlog' = r.log
  /\ UNCHANGED <<translator, EVars, GVars, OVars, FVars, SVars>>

TranslateBatch ==
  /\ TIdle /\ translator.kind # None
  /\ \E texts \in BatchLists, prov \in Provs :
       LET r == TranslateBatchOf(translator, texts, prov) IN
       /\ tcall' = [op |-> "translate_batch", texts |-> texts,
                    mode |-> prov.mode, raised |-> r.raised,
                    result |-> r.result]
       /\ tlog' = r.log
  /\ UNCHANGED <<translator, EVars, GVars, OVars, FVars, SVars>>

SplitTextCall ==
  /\ TIdle /\ translator.kind # None
  /\ \E text \in Texts, max_length \in 1..MaxSplitLen :
       tcall' = [op |-> "_split_text", text |-> text,
                 max_length |-> max_length, raised |-> None,
                 result |-> SplitText(text, max_length)]
  /\ UNCHANGED <<translator, tlog, EVars, GVars, OVars, FVars, SVars>>

\* The caller takes what the call returned or raised.
TReturn ==
  /\ tcall # NoCall
  /\ tcall' = NoCall /\ tlog' = <<>>
  /\ UNCHANGED <<translator, EVars, GVars, OVars, FVars, SVars>>

TInit == translator = NoInstance /\ tcall = NoCall /\ tlog = <<>>

TNext ==
  \/ NewGoogleTranslator
  \/ NewOpenRouterTranslator
  \/ CreateTranslator
  \/ Translate
  \/ TranslateBatch
  \/ SplitTextCall
  \/ TReturn

(***************************************************************************)
(* PdfExtractor.  The PDF file on disk is what the PDF reader presents: a  *)
(* sequence of pages, each with the text of page.get_text(), the number of *)
(* embedded images of page.get_images() and the raw blocks of              *)
(* page.get_text("dict")["blocks"], in the reader's order.                 *)
(***************************************************************************)
\* Most pages of a document.
MaxPages == 2
\* Most raw blocks of a page.
MaxBlocks == 3
\* Most unclosed document handles.
MaxHandles == 2
\* The text threshold of is_scanned.
ScanTextThreshold == 100

Fill(n) == [i \in 1..n |-> "a"]

\* Page texts around the threshold, with and without a trailing newline.
PageTexts ==
  {Fill(n) \o t : n \in {ScanTextThreshold - 1, ScanTextThreshold,
                         ScanTextThreshold + 1},
                  t \in {<<>>, <<NL>>}}

\* A raw block: whether it has "lines", the texts of the spans of its lines,
\* and x0, y0 of its bbox.  Blocks the code skips sit at the origin.
RawBlock(lines, spans, x0, y0) ==
  [lines |-> lines, spans |-> spans, x0 |-> x0, y0 |-> y0]
RawBlocks ==
  {RawBlock(FALSE, <<>>, 0, 0), RawBlock(TRUE, <<>>, 0, 0)}
  \cup {RawBlock(TRUE, <<txt>>, c[1], c[2]) :
          txt \in {<<"a">>, <<" ">>}, c \in {<<0, 0>>, <<1, 0>>, <<0, 1>>}}

Page(text, images, blocks) ==
  [text |-> text, images |-> images, blocks |-> blocks]

\* Documents that differ in what is_scanned reads, and one-page documents
\* that differ in their raw blocks.
ScanPages == {Page(t, n, <<>>) : t \in PageTexts, n \in 0..1}
ScanDocs == UNION {[1..k -> ScanPages] : k \in 0..MaxPages}
BlockDocs ==
  {<<Page(<<>>, 0, b)>> : b \in UNION {[1..k -> RawBlocks] : k \in 0..MaxBlocks}}
Docs == ScanDocs \cup BlockDocs

Paths == {"doc.pdf", "missing.pdf", "garbage.pdf"}

\* len(self._doc)
PageCount == Len(disk)

Min(a, b) == IF a <= b THEN a ELSE b
Max(a, b) == IF a >= b THEN a ELSE b

RECURSIVE Sum(_)
Sum(counts) == IF counts = <<>> THEN 0 ELSE Head(counts) + Sum(Tail(counts))

\* range(n) as the 1-based indices of the model's sequences.
Range(n) == 1..n

\* Faulty variant of PagesToCheck: every page is sampled.
PagesToCheck_All(sample_pages, page_count) == page_count

\* pages_to_check = min(sample_pages, self.page_count)
PagesToCheck(sample_pages, page_count) == Min(sample_pages, page_count)

\* is_scanned of an open document: its two lists, then the two averages.
\* sum(c) / len(c) < 100 is decided as sum(c) < 100 * len(c), and
\* sum(c) / len(c) > 0 as sum(c) > 0, which agree for len(c) > 0.
IsScannedOf(doc, sample_pages) ==
  LET pages_to_check == PagesToCheck(sample_pages, Len(doc))
      text_counts == [i \in Range(pages_to_check) |-> Len(Strip(doc[i].text))]
      image_counts == [i \in Range(pages_to_check) |-> doc[i].images]
  IN IF Len(text_counts) = 0 THEN Raised("ZeroDivisionError", <<>>)
     ELSE Returned(Sum(text_counts) < ScanTextThreshold * Len(text_counts)
                   /\ Sum(image_counts) > 0, <<>>)

TextBlock(text, x0, y0, page_num) ==
  [text |-> text, x0 |-> x0, y0 |-> y0, page_num |-> page_num]

\* "".join(parts)
RECURSIVE Concat(_)
Concat(parts) == IF parts = <<>> THEN <<>> ELSE Head(parts) \o Concat(Tail(parts))

\* The loop of extract_page_content over the raw blocks from k on.
RECURSIVE BlockLoop(_, _, _, _)
BlockLoop(blocks, k, text_blocks, page_number) ==
  IF k > Len(blocks) THEN text_blocks
  ELSE LET block == blocks[k] IN
       IF ~block.lines THEN BlockLoop(blocks, k + 1, text_blocks, page_number)
       ELSE IF block.spans # <<>>
       THEN BlockLoop(blocks, k + 1,
              Append(text_blocks,
                     TextBlock(Strip(Concat(block.spans)), block.x0, block.y0,
                               page_number)),
              page_number)
       ELSE BlockLoop(blocks, k + 1, text_blocks, page_number)

\* Faulty variant of KeyLess: the key is (b.x0, b.y0).
KeyLess_XFirst(a, b) == a.x0 < b.x0 \/ (a.x0 = b.x0 /\ a.y0 < b.y0)

\* key=lambda b: (b.y0, b.x0), compared as Python compares tuples.
KeyLess(a, b) == a.y0 < b.y0 \/ (a.y0 = b.y0 /\ a.x0 < b.x0)

\* b put into the sorted list after every element whose key is not greater.
RECURSIVE InsertBlock(_, _)
InsertBlock(sorted, b) ==
  IF sorted = <<>> THEN <<b>>
  ELSE IF KeyLess(b, Head(sorted)) THEN <<b>> \o sorted
  ELSE <<Head(sorted)>> \o InsertBlock(Tail(sorted), b)

\* text_blocks.sort(key=...): a stable sort.
RECURSIVE SortBlocks(_)
SortBlocks(text_blocks) ==
  IF text_blocks = <<>> THEN <<>>
  ELSE InsertBlock(SortBlocks(SubSeq(text_blocks, 1, Len(text_blocks) - 1)),
                   text_blocks[Len(text_blocks)])

\* PageContent.full_text
FullText(page_content) ==
  Join(<<NL>>, [i \in 1..Len(page_content.text_blocks) |->
                  page_content.text_blocks[i].text])

\* PageContent.has_text
HasText(page_content) == Len(page_content.text_blocks) > 0

\* extract_page_content of an open document; page_number is 0-based.
ExtractPageContentOf(doc, page_number) ==
  IF page_number < 0 \/ page_number >= Len(doc)
  THEN Raised("ValueError", <<>>)
  ELSE LET page == doc[page_number + 1] IN
       Returned([page_num |-> page_number,
                 text_blocks |->
                   SortBlocks(BlockLoop(page.blocks, 1, <<>>, page_number)),
                 images |-> [i \in 1..page.images |-> [index |-> i - 1]]],
                <<>>)

\* The text page.get_text("blocks") gives for a raw block.
BlockText(block) == Concat(block.spans)

\* The page text extract_text takes: the block texts sorted by (y0, x0) and
\* joined by newlines, or page.get_text().
PageTextOf(page, preserve_layout) ==
  IF preserve_layout
  THEN LET sorted == SortBlocks(page.blocks) IN
       Join(<<NL>>, [i \in 1..Len(sorted) |-> BlockText(sorted[i])])
  ELSE page.text

\* The loop of extract_text over page_numbers from k on: an index out of
\* range is logged and skipped.
RECURSIVE ExtractTextLoop(_, _, _, _, _)
ExtractTextLoop(doc, page_numbers, preserve_layout, k, texts) ==
  IF k > Len(page_numbers) THEN texts
  ELSE LET page_num == page_numbers[k] IN
       IF page_num < 0 \/ page_num >= Len(doc)
       THEN ExtractTextLoop(doc, page_numbers, preserve_layout, k + 1, texts)
       ELSE ExtractTextLoop(doc, page_numbers, preserve_layout, k + 1,
              Append(texts, PageTextOf(doc[page_num + 1], preserve_layout)))

\* extract_text of an open document; all_pages stands for page_numbers=None.
ExtractTextOf(doc, all_pages, page_numbers, preserve_layout) ==
  LET numbers == IF all_pages THEN [i \in 1..Len(doc) |-> i - 1]
                 ELSE page_numbers
  IN Returned(Join(<<NL, NL>>,
                   ExtractTextLoop(doc, numbers, preserve_layout, 1, <<>>)),
              <<>>)

\* render_page_to_image of an open document: the image of the page.
RenderPageToImageOf(doc, page_number) ==
  IF page_number < 0 \/ page_number >= Len(doc)
  THEN Raised("ValueError", <<>>)
  ELSE Returned([image_of_page |-> page_number], <<>>)

\* The page_numbers lists extract_text is tried on; MaxPages is out of range
\* in every document.
PageNumberLists ==
  {<<>>, <<0>>, <<1, 0>>, <<-1, 0>>, <<0, MaxPages>>, <<MaxPages>>}

\* extract_images of an open document: one image per image of the pages
\* looked at, named by page and index; all_pages stands for
\* page_number=None.
ExtractImagesOf(doc, all_pages, page_number) ==
  IF ~all_pages /\ page_number >= Len(doc)
  THEN Raised("IndexError", <<>>)
  ELSE LET pages_to_check == IF all_pages THEN [i \in 1..Len(doc) |-> i - 1]
                             ELSE <<page_number>>
       IN Returned(Concat([k \in 1..Len(pages_to_check) |->
                     [i \in 1..doc[pages_to_check[k] + 1].images |->
                        [page |-> pages_to_check[k], index |-> i - 1]]]),
                   <<>>)

\* search_text of an open document: the pattern is compiled, then each page
\* gives its matches, here counted.
SearchTextOf(doc, pattern) ==
  IF pattern = "(" THEN Raised("re.error", <<>>)
  ELSE Returned([p \in 1..Len(doc) |->
                   Cardinality({i \in 1..Len(doc[p].text) :
                                  doc[p].text[i] = pattern})],
                <<>>)

(***************************************************************************)
(* The extractor's actions.                                                *)
(***************************************************************************)
EIdle == ecall = NoCall

ECall(op, arg, r) ==
  [op |-> op, arg |-> arg, raised |-> r.raised, result |-> r.result]

\* The page_count property of an extractor whose document, when open, is doc.
PageCountOf(ext, doc) ==
  IF ext.doc = None THEN Raised("RuntimeError", <<>>)
  ELSE Returned(Len(doc), <<>>)

\* A faulty open that takes the document before the reader has parsed it.
Open_AssignFirst ==
  /\ EIdle /\ handles < MaxHandles
  /\ \E file_path \in Paths :
       IF file_path = "missing.pdf"
       THEN /\ ecall' = ECall("open", file_path,
                              Raised("FileNotFoundError", <<>>))
            /\ UNCHANGED <<extractor, handles>>
       ELSE /\ extractor' = [doc |-> "doc", file_path |-> file_path]
            /\ handles' = handles + 1
            /\ ecall' = ECall("open", file_path,
                              IF file_path = "garbage.pdf"
                              THEN Raised("ValueError", <<>>)
                              ELSE Returned("self", <<>>))
  /\ UNCHANGED <<disk, TVars, GVars, OVars, FVars, SVars>>

\* PdfExtractor.open: the earlier document, if any, is not closed.
Open ==
  /\ EIdle /\ handles < MaxHandles
  /\ \E file_path \in Paths :
       IF file_path = "missing.pdf"
       THEN /\ ecall' = ECall("open", file_path,
                              Raised("FileNotFoundError", <<>>))
            /\ UNCHANGED <<extractor, handles>>
       ELSE IF file_path = "garbage.pdf"
       THEN /\ ecall' = ECall("open", file_path, Raised("ValueError", <<>>))
            /\ UNCHANGED <<extractor, handles>>
       ELSE /\ extractor' = [doc |-> "doc", file_path |-> file_path]
            /\ handles' = handles + 1
            /\ ecall' = ECall("open", file_path, Returned("self", <<>>))
  /\ UNCHANGED <<disk, TVars, GVars, OVars, FVars, SVars>>

\* PdfExtractor.close: "if self._doc" is false for None and, a Document
\* having __len__ and no __bool__, for a document of no pages.
Close ==
  /\ EIdle
  /\ IF extractor.doc # None /\ PageCount > 0
     THEN /\ extractor' = [doc |-> None, file_path |-> None]
          /\ handles' = handles - 1
     ELSE UNCHANGED <<extractor, handles>>
  /\ ecall' = ECall("close", None, Returned(None, <<>>))
  /\ UNCHANGED <<disk, TVars, GVars, OVars, FVars, SVars>>

\* Reading the page_count property.
GetPageCount ==
  /\ EIdle
  /\ ecall' = ECall("page_count", None, PageCountOf(extractor, disk))
  /\ UNCHANGED <<extractor, disk, handles, TVars, GVars, OVars, FVars, SVars>>

\* The metadata property: needs an open document.
GetMetadata ==
  /\ EIdle
  /\ ecall' = ECall("metadata", None,
                    IF extractor.doc = None THEN Raised("RuntimeError", <<>>)
                    ELSE Returned("metadata", <<>>))
  /\ UNCHANGED <<extractor, disk, handles, TVars, GVars, OVars, FVars, SVars>>

\* extract_images for every page (page_number=None) or for a page index in
\* 0..MaxPages: self._doc[page_num] raises IndexError past the last page.
ExtractImages ==
  /\ EIdle
  /\ \E all_pages \in BOOLEAN, page_number \in 0..MaxPages :
       /\ all_pages => page_number = 0
       /\ ecall' = ECall("extract_images",
                         [all_pages |-> all_pages, page_number |-> page_number],
                         IF extractor.doc = None
                         THEN Raised("RuntimeError", <<>>)
                         ELSE ExtractImagesOf(disk, all_pages, page_number))
  /\ UNCHANGED <<extractor, disk, handles, TVars, GVars, OVars, FVars, SVars>>

\* get_fonts: the fonts of every page, which the model does not tell apart.
GetFonts ==
  /\ EIdle
  /\ ecall' = ECall("get_fonts", None,
                    IF extractor.doc = None THEN Raised("RuntimeError", <<>>)
                    ELSE Returned("fonts", <<>>))
  /\ UNCHANGED <<extractor, disk, handles, TVars, GVars, OVars, FVars, SVars>>

\* search_text for the pattern "a" and for "(", which re.compile rejects.
SearchText ==
  /\ EIdle
  /\ \E pattern \in {"a", "("} :
       ecall' = ECall("search_text", pattern,
                      IF extractor.doc = None
                      THEN Raised("RuntimeError", <<>>)
                      ELSE SearchTextOf(disk, pattern))
  /\ UNCHANGED <<extractor, disk, handles, TVars, GVars, OVars, FVars, SVars>>

IsScanned ==
  /\ EIdle
  /\ \E sample_pages \in 0..(MaxPages + 1) :
       ecall' = ECall("is_scanned", sample_pages,
                      IF extractor.doc = None
                      THEN Raised("RuntimeError", <<>>)
                      ELSE IsScannedOf(disk, sample_pages))
  /\ UNCHANGED <<extractor, disk, handles, TVars, GVars, OVars, FVars, SVars>>

ExtractPageContent ==
  /\ EIdle
  /\ \E page_number \in (-1)..MaxPages :
       ecall' = ECall("extract_page_content", page_number,
                      IF extractor.doc = None
                      THEN Raised("RuntimeError", <<>>)
                      ELSE ExtractPageContentOf(disk, page_number))
  /\ UNCHANGED <<extractor, disk, handles, TVars, GVars, OVars, FVars, SVars>>

ExtractText ==
  /\ EIdle
  /\ \E all_pages \in BOOLEAN, page_numbers \in PageNumberLists,
        preserve_layout \in BOOLEAN :
       /\ all_pages => page_numbers = <<>>
       /\ ecall' = ECall("extract_text",
                         [all_pages |-> all_pages,
                          page_numbers |-> page_numbers,
                          preserve_layout |-> preserve_layout],
                         IF extractor.doc = None
                         THEN Raised("RuntimeError", <<>>)
                         ELSE ExtractTextOf(disk, all_pages, page_numbers,
                                            preserve_layout))
  /\ UNCHANGED <<extractor, disk, handles, TVars, GVars, OVars, FVars, SVars>>

RenderPageToImage ==
  /\ EIdle
  /\ \E page_number \in (-1)..MaxPages :
       ecall' = ECall("render_page_to_image", page_number,
                      IF extractor.doc = None
                      THEN Raised("RuntimeError", <<>>)
                      ELSE RenderPageToImageOf(disk, page_number))
  /\ UNCHANGED <<extractor, disk, handles, TVars, GVars, OVars, FVars, SVars>>

\* The caller takes what the call returned or raised.
EReturn ==
  /\ ecall # NoCall
  /\ ecall' = NoCall
  /\ UNCHANGED <<extractor, disk, handles, TVars, GVars, OVars, FVars, SVars>>

EInit ==
  /\ extractor = [doc |-> None, file_path |-> None]
  /\ handles = 0
  /\ ecall = NoCall

ENext ==
  \/ Open
  \/ Close
  \/ GetPageCount
  \/ GetMetadata
  \/ ExtractImages
  \/ GetFonts
  \/ SearchText
  \/ IsScanned
  \/ ExtractPageContent
  \/ ExtractText
  \/ RenderPageToImage
  \/ EReturn

(***************************************************************************)
(* BilingualGenerator.  A story is the list of flowables handed to         *)
(* doc.build, which writes the file at output_path; the overlay layout     *)
(* saves the pages of the original PDF with their text boxes.              *)
(***************************************************************************)
\* Longest page text handed to generate as a list of one page.
MaxPageLen == 4
\* Longest list of pages handed to generate.
MaxGenPages == 2
\* Most pages of the original PDF of the overlay layout.
MaxPdfPages == 2

LAYOUTS == {"side_by_side", "line_by_line", "overlay"}

GenAlphabet == {"a", " ", NL}

\* Lists of one page over every short text, and longer lists over three
\* texts, the last with a blank and an empty line.
PoolTexts == {<<>>, <<"a">>, <<"a", NL, " ", NL, NL, "a">>}
OnePageLists == {<<t>> : t \in TextsOver(GenAlphabet, MaxPageLen)}
PoolLists == UNION {[1..k -> PoolTexts] : k \in 0..MaxGenPages}

\* The arguments generate is called with: (original_pages,
\* translated_pages, layout, original_pdf_path).
GenerateArgs ==
  ((OnePageLists \X OnePageLists) \X {"line_by_line"}) \X {None}
  \cup
  ((PoolLists \X PoolLists) \X (LAYOUTS \cup {"SIDE_BY_SIDE", "triangle"}))
     \X {None, "", "orig.pdf"}

Paragraph(text, style) == [kind |-> "Paragraph", text |-> text, style |-> style]
Spacer == [kind |-> "Spacer", text |-> <<>>, style |-> None]
PageBreak == [kind |-> "PageBreak", text |-> <<>>, style |-> None]

\* str(n) for a page number of the model.
Digits == <<"1", "2", "3", "4", "5", "6", "7", "8", "9">>
\* f"Page {i + 1}"
PageLabel(i) == <<"P", "a", "g", "e", " ", Digits[i + 1]>>

\* text.replace('\n', '<br/>')
RECURSIVE ReplaceNewlines(_)
ReplaceNewlines(text) ==
  IF text = <<>> THEN <<>>
  ELSE (IF Head(text) = NL THEN <<"<", "b", "r", "/", ">">> ELSE <<Head(text)>>)
       \o ReplaceNewlines(Tail(text))

\* zip(original_pages, translated_pages) stops at the shorter list.
ZipLen(original_pages, translated_pages) ==
  Min(Len(original_pages), Len(translated_pages))

\* "if i < len(original_pages) - 1": the page break after page i (0-based).
BreakAfter(i, original_pages) == i < Len(original_pages) - 1

\* The loop of generate_side_by_side from page i (0-based) on.
RECURSIVE SideBySideLoop(_, _, _, _)
SideBySideLoop(original_pages, translated_pages, i, story) ==
  IF i >= ZipLen(original_pages, translated_pages) THEN story
  ELSE LET orig == original_pages[i + 1]
           trans == translated_pages[i + 1]
           page == << Paragraph(PageLabel(i), "BilingualTitle"),
                      Spacer,
                      Paragraph(<<"<b>Original:</b>">>, "OriginalText"),
                      Paragraph(ReplaceNewlines(orig), "OriginalText"),
                      Spacer,
                      Paragraph(<<"<b>Translation:</b>">>, "TranslatedText"),
                      Paragraph(ReplaceNewlines(trans), "TranslatedText") >>
       IN SideBySideLoop(original_pages, translated_pages, i + 1,
            story \o page
            \o (IF BreakAfter(i, original_pages) THEN <<PageBreak>>
                ELSE <<>>))

\* "if j < len(lines) and lines[j].strip()": line j (0-based) is emitted.
LineEmitted(lines, j) == j < Len(lines) /\ Strip(lines[j + 1]) # <<>>

\* Faulty variant of LineRange: the loop stops at the shorter list.
LineRange_Min(orig_lines, trans_lines) ==
  Min(Len(orig_lines), Len(trans_lines))

\* range(max(len(orig_lines), len(trans_lines)))
LineRange(orig_lines, trans_lines) == Max(Len(orig_lines), Len(trans_lines))

\* The inner loop of generate_line_by_line from line j (0-based) on.
RECURSIVE InterleaveLoop(_, _, _, _)
InterleaveLoop(orig_lines, trans_lines, j, story) ==
  IF j >= LineRange(orig_lines, trans_lines) THEN story
  ELSE InterleaveLoop(orig_lines, trans_lines, j + 1,
         story
         \o (IF LineEmitted(orig_lines, j)
             THEN <<Paragraph(orig_lines[j + 1], "OriginalLine")>> ELSE <<>>)
         \o (IF LineEmitted(trans_lines, j)
             THEN <<Paragraph(trans_lines[j + 1], "TranslatedLine")>>
             ELSE <<>>))

\* The outer loop of generate_line_by_line from page i (0-based) on.
RECURSIVE LineByLineLoop(_, _, _, _)
LineByLineLoop(original_pages, translated_pages, i, story) ==
  IF i >= ZipLen(original_pages, translated_pages) THEN story
  ELSE LET orig_lines == SplitOn(original_pages[i + 1], NL, 1, <<>>)
           trans_lines == SplitOn(translated_pages[i + 1], NL, 1, <<>>)
           head == << Paragraph(<<"<b>">> \o PageLabel(i) \o <<"</b>">>,
                                "Heading2"),
                      Spacer >>
       IN LineByLineLoop(original_pages, translated_pages, i + 1,
            InterleaveLoop(orig_lines, trans_lines, 0, story \o head)
            \o (IF BreakAfter(i, original_pages) THEN <<PageBreak>>
                ELSE <<>>))

NoFile == [kind |-> None]
\* A file some earlier run left at output_path.
Existing == [kind |-> "existing"]
Written(method, content) ==
  [kind |-> "pdf", method |-> method, content |-> content]

\* What a generator call did: the exception it raised, the generator methods
\* that ran, and the file it wrote (NoFile: it wrote nothing).
Generated(raised, ran, written) ==
  [raised |-> raised, ran |-> ran, written |-> written]

\* generate_side_by_side: builds the story, then doc.build writes it.
GenerateSideBySide(original_pages, translated_pages) ==
  Generated(None, <<"generate_side_by_side">>,
    Written("generate_side_by_side",
            SideBySideLoop(original_pages, translated_pages, 0, <<>>)))

\* generate_line_by_line
GenerateLineByLine(original_pages, translated_pages) ==
  Generated(None, <<"generate_line_by_line">>,
    Written("generate_line_by_line",
            LineByLineLoop(original_pages, translated_pages, 0, <<>>)))

\* generate_overlay_pdf on an original PDF of n pages: page page_num gets
\* the text box of translated_pages[page_num] when there is one.
GenerateOverlayPdf(n, translated_pages) ==
  Generated(None, <<"generate_overlay_pdf">>,
    Written("generate_overlay_pdf",
      [p \in 1..n |->
         [source_page |-> p - 1,
          textbox |-> IF p - 1 < Len(translated_pages)
                      THEN <<translated_pages[p]>> ELSE <<>>]]))

\* Faulty variant of LayoutSupported: the layout is not validated.
LayoutSupported_Any(layout) == TRUE

\* "if layout not in self.LAYOUTS" lets the call go on.
LayoutSupported(layout) == layout \in LAYOUTS

\* Faulty variant of NoOriginalPdf: the path is never found missing.
NoOriginalPdf_Never(original_pdf_path) == FALSE

\* "if not original_pdf_path"
NoOriginalPdf(original_pdf_path) == original_pdf_path \in {None, ""}

\* BilingualGenerator.generate; n is the page count of the original PDF.
GenerateOf(original_pages, translated_pages, layout, original_pdf_path, n) ==
  IF ~LayoutSupported(layout) THEN Generated("ValueError", <<>>, NoFile)
  ELSE IF layout = "side_by_side"
  THEN GenerateSideBySide(original_pages, translated_pages)
  ELSE IF layout = "line_by_line"
  THEN GenerateLineByLine(original_pages, translated_pages)
  ELSE IF layout = "overlay"
  THEN IF NoOriginalPdf(original_pdf_path)
       THEN Generated("ValueError", <<>>, NoFile)
       ELSE GenerateOverlayPdf(n, translated_pages)
  ELSE Generated(None, <<>>, NoFile)

(***************************************************************************)
(* The generator's actions.                                                *)
(***************************************************************************)
GIdle == gcall = NoCall

Generate ==
  /\ GIdle
  /\ \E args \in GenerateArgs, n \in 1..MaxPdfPages :
       LET original_pages == args[1][1][1]
           translated_pages == args[1][1][2]
           layout == args[1][2]
           original_pdf_path == args[2]
           r == GenerateOf(original_pages, translated_pages, layout,
                           original_pdf_path, n)
       IN /\ gcall' = [op |-> "generate",
                       original_pages |-> original_pages,
                       translated_pages |-> translated_pages,
                       layout |-> layout,
                       original_pdf_path |-> original_pdf_path,
                       before |-> outFile,
                       raised |-> r.raised, ran |-> r.ran]
          /\ outFile' = IF r.written = NoFile THEN outFile ELSE r.written
  /\ UNCHANGED <<TVars, EVars, OVars, FVars, SVars>>

\* The caller takes what the call returned or raised; what the file at
\* output_path holds is from then on just some earlier run's output.
GReturn ==
  /\ gcall # NoCall
  /\ gcall' = NoCall
  /\ outFile' = IF outFile = NoFile THEN NoFile ELSE Existing
  /\ UNCHANGED <<TVars, EVars, OVars, FVars, SVars>>

GInit == outFile = NoFile /\ gcall = NoCall

GNext ==
  \/ Generate
  \/ GReturn

(***************************************************************************)
(* OcrEngine.  An image is what the engine makes of it: the call           *)
(* pytesseract.image_to_data raises, or returns rows of text, confidence   *)
(* and box.  Preprocessing changes the pixels only and is part of that     *)
(* answer.  A confidence is the fraction num / den.                        *)
(***************************************************************************)
\* Most rows image_to_data returns for one image.
MaxWords == 2
\* Most page images handed to process_scanned_pdf.
MaxOcrPages == 2

LANG_CODES ==
  [c \in {"zh-CN", "zh-TW", "en", "ja", "ko", "auto"} |->
     CASE c = "zh-CN" -> "chi_sim"
       [] c = "zh-TW" -> "chi_tra"
       [] c = "en" -> "eng"
       [] c = "ja" -> "jpn"
       [] c = "ko" -> "kor"
       [] c = "auto" -> "eng+chi_sim+chi_tra+jpn+kor"]

\* The default of the lang parameter of OcrEngine.__init__.
DefaultOcrLang == "eng+chi_sim+chi_tra+jpn+kor"

\* One row of image_to_data's DICT output.
Row(text, conf) ==
  [text |-> text, conf |-> conf, left |-> 1, top |-> 2, width |-> 3,
   height |-> 4]
RowTexts == {<<>>, <<" ">>, <<"a">>, <<"b">>}
RowConfs == {-1, 0, 90}
Rows == {Row(t, c) : t \in RowTexts, c \in RowConfs}
EngineData == UNION {[1..k -> Rows] : k \in 0..MaxWords}

\* A loaded image the engine reads, one on which the engine call raises,
\* and a path Image.open cannot open.
PilImage(fails, data) == [kind |-> "pil", fails |-> fails, data |-> data]
MissingImage == [kind |-> "missing_path", fails |-> FALSE, data |-> <<>>]
PilImages == {PilImage(FALSE, d) : d \in EngineData} \cup {PilImage(TRUE, <<>>)}
OcrImages == PilImages \cup {MissingImage}

\* The lang argument of recognize.
OcrLangs ==
  {None, "", "en", "zh-CN", "zh-TW", "ja", "ko", "auto", "fra"}

\* The page image lists of process_scanned_pdf: rendered pages.
PageImagePool ==
  { PilImage(TRUE, <<>>),
    PilImage(FALSE, <<>>),
    PilImage(FALSE, <<Row(<<"a">>, 90)>>),
    PilImage(FALSE, <<Row(<<"b">>, 90), Row(<<" ">>, -1)>>) }
PageImageLists == UNION {[1..k -> PageImagePool] : k \in 0..MaxOcrPages}

Confidence(num, den) == [num |-> num, den |-> den]
ZeroConfidence == Confidence(0, 1)

OcrResult(text, confidence, bounding_box, page_num) ==
  [text |-> text, confidence |-> confidence, bounding_box |-> bounding_box,
   page_num |-> page_num]

\* Faulty variant of MapLanguage: the table is not consulted.
MapLanguage_Identity(lang_code) == lang_code

\* self.LANG_CODES.get(lang_code, lang_code)
MapLanguage(lang_code) ==
  IF lang_code \in DOMAIN LANG_CODES THEN LANG_CODES[lang_code] ELSE lang_code

\* "self._map_language(lang) if lang else self.lang"
OcrLangOf(engine, lang) ==
  IF lang \notin {None, ""} THEN MapLanguage(lang) ELSE engine.lang

\* One call of pytesseract.image_to_data.
EngineCall(ocr_lang, ok) == [lang |-> ocr_lang, ok |-> ok]

\* The rows recognize keeps: "if text.strip()".
RECURSIVE KeptRows(_)
KeptRows(data) ==
  IF data = <<>> THEN <<>>
  ELSE (IF Strip(Head(data).text) # <<>> THEN <<Head(data)>> ELSE <<>>)
       \o KeptRows(Tail(data))

\* sum(confidences) / len(confidences) if confidences else 0.0
AvgConfidence(kept) ==
  IF kept = <<>> THEN ZeroConfidence
  ELSE Confidence(Sum([i \in 1..Len(kept) |-> kept[i].conf]), Len(kept))

\* OcrEngine.recognize: loading the image is outside the try, the engine
\* call and the loop over its rows inside.
RecognizeOf(engine, image, lang) ==
  IF image.kind = "missing_path" THEN Raised("FileNotFoundError", <<>>)
  ELSE LET ocr_lang == OcrLangOf(engine, lang) IN
       IF image.fails
       THEN Returned(OcrResult(<<>>, ZeroConfidence, None, 0),
                     <<EngineCall(ocr_lang, FALSE)>>)
       ELSE LET kept == KeptRows(image.data)
                texts == [i \in 1..Len(kept) |-> kept[i].text]
            IN Returned(OcrResult(Join(<<" ">>, texts), AvgConfidence(kept),
                                  None, 0),
                        <<EngineCall(ocr_lang, TRUE)>>)

\* Faulty variant of BoxKept: no confidence floor.
BoxKept_NoFloor(row) == Strip(row.text) # <<>>

\* "if text.strip() and int(data['conf'][i]) > 0"
BoxKept(row) == Strip(row.text) # <<>> /\ row.conf > 0

\* The loop of recognize_with_boxes over the rows.
RECURSIVE BoxLoop(_, _)
BoxLoop(data, results) ==
  IF data = <<>> THEN results
  ELSE LET row == Head(data) IN
       BoxLoop(Tail(data),
         IF BoxKept(row)
         THEN Append(results,
                OcrResult(row.text, Confidence(row.conf, 1),
                          <<row.left, row.top, row.left + row.width,
                            row.top + row.height>>, 0))
         ELSE results)

\* Faulty variant of BoxesOnFailure: the error leaves the method.
BoxesOnFailure_Raise(ocr_lang) ==
  Raised("TesseractError", <<EngineCall(ocr_lang, FALSE)>>)

\* recognize_with_boxes when the engine call raises: the except clause logs
\* and the method returns results, still empty.
BoxesOnFailure(ocr_lang) == Returned(<<>>, <<EngineCall(ocr_lang, FALSE)>>)

\* OcrEngine.recognize_with_boxes
RecognizeWithBoxesOf(engine, image, lang) ==
  IF image.kind = "missing_path" THEN Raised("FileNotFoundError", <<>>)
  ELSE LET ocr_lang == OcrLangOf(engine, lang) IN
       IF image.fails THEN BoxesOnFailure(ocr_lang)
       ELSE Returned(BoxLoop(image.data, <<>>),
                     <<EngineCall(ocr_lang, TRUE)>>)

\* OcrEngine.recognize_pdf_page: the text of recognize's result.
RecognizePdfPage(engine, pdf_image, page_num, lang) ==
  LET r == RecognizeOf(engine, pdf_image, lang) IN
  IF r.raised # None THEN r ELSE Returned(r.result.text, r.log)

\* The loop of process_scanned_pdf from page page_num (0-based) on.
RECURSIVE ProcessScannedPdfLoop(_, _, _, _, _)
ProcessScannedPdfLoop(engine, page_images, lang, page_num, acc) ==
  IF page_num >= Len(page_images) THEN acc
  ELSE LET r == RecognizePdfPage(engine, page_images[page_num + 1], page_num,
                                 lang)
       IN IF r.raised # None THEN Raised(r.raised, acc.log \o r.log)
          ELSE ProcessScannedPdfLoop(engine, page_images, lang, page_num + 1,
                 Returned(Append(acc.result, r.result), acc.log \o r.log))

\* OcrEngine.process_scanned_pdf
ProcessScannedPdfOf(engine, page_images, lang) ==
  ProcessScannedPdfLoop(engine, page_images, lang, 0, Returned(<<>>, <<>>))

\* Faulty variant of CheckTesseract: the probe's failure is swallowed.
CheckTesseract_Lazy(available) == Returned(None, <<>>)

\* OcrEngine._check_tesseract: the version probe, RuntimeError when it fails.
CheckTesseract(available) ==
  IF available THEN Returned(None, <<>>) ELSE Raised("RuntimeError", <<>>)

(***************************************************************************)
(* The OCR engine's actions.                                               *)
(***************************************************************************)
OIdle == ocall = NoCall

\* OcrEngine.__init__: stores lang, then probes Tesseract.
NewOcrEngine ==
  /\ OIdle
  /\ \E lang \in {DefaultOcrLang, "deu"} :
       LET r == CheckTesseract(tesseract) IN
       /\ ocall' = [op |-> "__init__", lang |-> lang, raised |-> r.raised]
       /\ ocr' = IF r.raised = None THEN [kind |-> "ocr", lang |-> lang]
                 ELSE ocr
  /\ UNCHANGED <<tesseract, TVars, EVars, GVars, FVars, SVars>>

OCall(op, image, lang, r) ==
  [op |-> op, image |-> image, lang |-> lang, raised |-> r.raised,
   result |-> r.result, calls |-> r.log]

Recognize ==
  /\ OIdle /\ ocr.kind # None
  /\ \E image \in OcrImages, lang \in OcrLangs :
       ocall' = OCall("recognize", image, lang, RecognizeOf(ocr, image, lang))
  /\ UNCHANGED <<tesseract, ocr, TVars, EVars, GVars, FVars, SVars>>

RecognizeWithBoxes ==
  /\ OIdle /\ ocr.kind # None
  /\ \E image \in OcrImages, lang \in OcrLangs :
       ocall' = OCall("recognize_with_boxes", image, lang,
                      RecognizeWithBoxesOf(ocr, image, lang))
  /\ UNCHANGED <<tesseract, ocr, TVars, EVars, GVars, FVars, SVars>>

ProcessScannedPdf ==
  /\ OIdle /\ ocr.kind # None
  /\ \E page_images \in PageImageLists, lang \in {None, "en"} :
       ocall' = OCall("process_scanned_pdf", page_images, lang,
                      ProcessScannedPdfOf(ocr, page_images, lang))
  /\ UNCHANGED <<tesseract, ocr, TVars, EVars, GVars, FVars, SVars>>

\* The caller takes what the call returned or raised.
OReturn ==
  /\ ocall # NoCall
  /\ ocall' = NoCall
  /\ UNCHANGED <<tesseract, ocr, TVars, EVars, GVars, FVars, SVars>>

OInit == tesseract \in BOOLEAN /\ ocr = NoInstance /\ ocall = NoCall

ONext ==
  \/ NewOcrEngine
  \/ Recognize
  \/ RecognizeWithBoxes
  \/ ProcessScannedPdf
  \/ OReturn

(***************************************************************************)
(* The front ends: the commands of easypdfforyou/cli/__init__.py and the   *)
(* request handlers of easypdfforyou/web/app.py.  Each is the sequence of  *)
(* the calls its try block makes; any call but close may raise, which      *)
(* takes the operation to its except clause and, where it has one, its     *)
(* finally clause.  Each operation works on a PdfExtractor of its own.     *)
(***************************************************************************)
FrontEnd(op, finally_close, steps) ==
  [op |-> op, finally_close |-> finally_close, steps |-> steps]

\* The calls after open that get the page texts: by OCR or from the text
\* layer.
OcrTexts == <<"OcrEngine", "render_all_pages", "process_scanned_pdf">>
LayerTexts == <<"extract_all_pages">>

\* extract_command: open .. return inside try, close in finally.
ExtractCommand(pages, output) ==
  FrontEnd("extract_command", TRUE,
    <<"open">>
    \o (IF pages THEN <<"parse_pages">> ELSE <<>>)
    \o <<"extract_text">>
    \o (IF output THEN <<"write_text">> ELSE <<"print">>))

\* translate_command: open .. return inside try, close in finally.
TranslateCommand(ocr_arg, auto_ocr, scanned, text_format) ==
  FrontEnd("translate_command", TRUE,
    <<"open">>
    \o (IF ~ocr_arg /\ auto_ocr THEN <<"is_scanned">> ELSE <<>>)
    \o (IF ocr_arg \/ (auto_ocr /\ scanned) THEN OcrTexts ELSE LayerTexts)
    \o <<"create_translator", "translate", "BilingualGenerator">>
    \o (IF text_format THEN <<"write_text">> ELSE <<"generate">>))

\* ocr_command: OcrEngine, open and the page loop inside try; no finally and
\* no close.
OcrCommand(output) ==
  FrontEnd("ocr_command", FALSE,
    <<"OcrEngine", "open", "page_count", "render_page_to_image",
      "recognize_pdf_page">>
    \o (IF output THEN <<"write_text">> ELSE <<"print">>))

\* api_extract: close and unlink at the end of the try block.
ApiExtract ==
  FrontEnd("api_extract", FALSE,
    <<"save_upload", "open", "extract_all_pages", "page_count", "metadata",
      "is_scanned", "close", "unlink", "jsonify">>)

\* api_translate: close after the translate loop, inside the try block.
ApiTranslate(use_ocr, scanned, text_format) ==
  FrontEnd("api_translate", FALSE,
    <<"save_upload", "open">>
    \o (IF ~use_ocr THEN <<"is_scanned">> ELSE <<>>)
    \o (IF use_ocr \/ scanned THEN OcrTexts ELSE LayerTexts)
    \o <<"create_translator", "translate", "close">>
    \o (IF text_format THEN <<"mktemp", "write_text">>
        ELSE <<"BilingualGenerator", "mktemp", "generate">>)
    \o <<"unlink", "send_file">>)

\* api_ocr: close after the page loop, inside the try block.
ApiOcr ==
  FrontEnd("api_ocr", FALSE,
    <<"save_upload", "open", "OcrEngine", "page_count",
      "render_page_to_image", "recognize_pdf_page", "close", "unlink",
      "jsonify">>)

\* upload: close after the translate loop, inside the try block.
Upload(scanned) ==
  FrontEnd("upload", FALSE,
    <<"secure_filename", "save_upload", "open", "is_scanned">>
    \o (IF scanned THEN OcrTexts ELSE LayerTexts)
    \o <<"create_translator", "translate", "close", "BilingualGenerator",
         "mktemp", "generate", "unlink", "send_file">>)

\* A request without a usable file is answered before the try block.
BadRequest(op) == FrontEnd(op, FALSE, <<>>)

FrontEnds ==
  {ExtractCommand(p, o) : p \in BOOLEAN, o \in BOOLEAN}
  \cup {TranslateCommand(a, b, c, d) :
          a \in BOOLEAN, b \in BOOLEAN, c \in BOOLEAN, d \in BOOLEAN}
  \cup {OcrCommand(o) : o \in BOOLEAN}
  \cup {ApiExtract, ApiOcr}
  \cup {ApiTranslate(a, b, c) : a \in BOOLEAN, b \in BOOLEAN, c \in BOOLEAN}
  \cup {Upload(s) : s \in BOOLEAN}
  \cup {BadRequest(op) : op \in {"api_extract", "api_translate", "api_ocr",
                                 "upload"}}

\* What an operation has done so far: whether its extractor holds an open
\* document, how many documents it opened and closed, how many uploads it
\* saved and deleted, and the exception that ended its try block.
Progress(doc_open, opened, closed, saved, unlinked, raised) ==
  [doc_open |-> doc_open, opened |-> opened, closed |-> closed,
   saved |-> saved, unlinked |-> unlinked, raised |-> raised]

\* PdfExtractor.close on the operation's extractor.
Closed(st) ==
  IF st.doc_open
  THEN [st EXCEPT !.doc_open = FALSE, !.closed = st.closed + 1]
  ELSE st

\* One call of the try block.
StepDone(step, st) ==
  CASE step = "open" ->
         [st EXCEPT !.doc_open = TRUE, !.opened = st.opened + 1]
    [] step = "close" -> Closed(st)
    [] step = "save_upload" -> [st EXCEPT !.saved = st.saved + 1]
    [] step = "unlink" -> [st EXCEPT !.unlinked = st.unlinked + 1]
    [] OTHER -> st

\* The try block from step k on; step fail_at raises (0: none does).
RECURSIVE TryBlock(_, _, _, _)
TryBlock(steps, k, fail_at, st) ==
  IF k > Len(steps) THEN st
  ELSE IF k = fail_at THEN [st EXCEPT !.raised = steps[k]]
  ELSE TryBlock(steps, k + 1, fail_at, StepDone(steps[k], st))

\* The whole operation: the try block, then the finally clause.
RunFrontEnd(fe, fail_at) ==
  LET st == TryBlock(fe.steps, 1, fail_at, Progress(FALSE, 0, 0, 0, 0, None))
  IN IF fe.finally_close THEN Closed(st) ELSE st

(***************************************************************************)
(* The front ends' actions.                                                *)
(***************************************************************************)
FIdle == fcall = NoCall

\* One front-end operation from its call to its return; the documents it
\* leaves open stay open in the process.
FrontEndOperation ==
  /\ FIdle /\ handles < MaxHandles
  /\ \E fe \in FrontEnds : \E fail_at \in 0..Len(fe.steps) :
       /\ fail_at > 0 => fe.steps[fail_at] # "close"
       /\ LET st == RunFrontEnd(fe, fail_at) IN
          /\ fcall' = [op |-> fe.op, finally_close |-> fe.finally_close,
                       steps |-> fe.steps, fail_at |-> fail_at,
                       raised |-> st.raised, opened |-> st.opened,
                       closed |-> st.closed, saved |-> st.saved,
                       unlinked |-> st.unlinked]
          /\ handles' = handles + (st.opened - st.closed)
  /\ UNCHANGED <<extractor, disk, ecall, TVars, GVars, OVars, SVars>>

\* The command exits or the response is sent.
FReturn ==
  /\ fcall # NoCall
  /\ fcall' = NoCall
  /\ UNCHANGED <<EVars, TVars, GVars, OVars, SVars>>

FInit == fcall = NoCall

FNext ==
  \/ FrontEndOperation
  \/ FReturn

(***************************************************************************)
(* TranslationService, the translator with fallback that cli/main.py and   *)
(* core/__init__.py import from translator.py.  It wraps a primary and a   *)
(* secondary provider; the primary may have failed to construct.  An       *)
(* attempt is one call of a wrapped provider's translate.                  *)
(***************************************************************************)
ServiceTexts == TextsOver(Alphabet, 2)

Attempt(provider, text, ok) == [provider |-> provider, text |-> text, ok |-> ok]

\* Faulty variant of ServiceTranslateOf: a failed secondary sends the request
\* back to the primary.
ServiceTranslateOf_Cascade(svc, text, primary_ok, secondary_ok, mode) ==
  LET first == IF svc.primary_constructed
               THEN <<Attempt("primary", text, primary_ok)>> ELSE <<>>
  IN IF svc.primary_constructed /\ primary_ok
     THEN Returned(TranslationResult(text, Respond(mode, text), "primary"),
                   first)
     ELSE IF secondary_ok
     THEN Returned(TranslationResult(text, Respond(mode, text), "secondary"),
                   Append(first, Attempt("secondary", text, TRUE)))
     ELSE Returned(TranslationResult(text, text, "fallback"),
                   first \o << Attempt("secondary", text, FALSE),
                               Attempt("primary", text, FALSE) >>)

\* TranslationService.translate: the primary is tried when it was
\* constructed; when it was not, or its call fails, the same request goes to
\* the secondary, once; when that fails too the original text comes back.
ServiceTranslateOf(svc, text, primary_ok, secondary_ok, mode) ==
  LET first == IF svc.primary_constructed
               THEN <<Attempt("primary", text, primary_ok)>> ELSE <<>>
  IN IF svc.primary_constructed /\ primary_ok
     THEN Returned(TranslationResult(text, Respond(mode, text), "primary"),
                   first)
     ELSE IF secondary_ok
     THEN Returned(TranslationResult(text, Respond(mode, text), "secondary"),
                   Append(first, Attempt("secondary", text, TRUE)))
     ELSE Returned(TranslationResult(text, text, "fallback"),
                   Append(first, Attempt("secondary", text, FALSE)))

SIdle == scall = NoCall

\* TranslationService(): constructing the primary provider succeeds or fails.
NewTranslationService ==
  /\ SIdle
  /\ \E primary_constructed \in BOOLEAN :
       service' = [kind |-> "service",
                   primary_constructed |-> primary_constructed]
  /\ UNCHANGED <<scall, TVars, EVars, GVars, OVars, FVars>>

ServiceTranslate ==
  /\ SIdle /\ service.kind # None
  /\ \E text \in ServiceTexts, primary_ok \in BOOLEAN,
        secondary_ok \in BOOLEAN, mode \in Modes :
       LET r == ServiceTranslateOf(service, text, primary_ok, secondary_ok,
                                   mode)
       IN scall' = [op |-> "translate", text |-> text, raised |-> r.raised,
                    result |-> r.result, attempts |-> r.log]
  /\ UNCHANGED <<service, TVars, EVars, GVars, OVars, FVars>>

\* The caller takes what the call returned.
SReturn ==
  /\ scall # NoCall
  /\ scall' = NoCall
  /\ UNCHANGED <<service, TVars, EVars, GVars, OVars, FVars>>

SInit == service = NoInstance /\ scall = NoCall

SNext ==
  \/ NewTranslationService
  \/ ServiceTranslate
  \/ SReturn

(***************************************************************************)
(* Properties of the translators, checked under SpecTranslator.            *)
(***************************************************************************)
IsTranslate == tcall.op = "translate"
IsBatch == tcall.op = "translate_batch"
IsSplit == tcall.op = "_split_text"

\* Some provider call of the last operation failed.
ProviderFailed == \E i \in 1..Len(tlog) : tlog[i].ev = "call" /\ ~tlog[i].ok

\* C1: when the provider call fails during translate of a non-blank text,
\* translate does not raise and returns the text itself as translated_text.
\* The code re-raises instead (translator.py lines 218-220 and 401-406).
C1_FailedCallReturnsOriginal ==
  (IsTranslate /\ Strip(tcall.text) # <<>> /\ ProviderFailed)
    => (tcall.raised = None /\ tcall.result.translated_text = tcall.text)

\* A provider that answers every call.
AllOk(mode) == [fails |-> {}, kind |-> "RequestException", mode |-> mode]

ErrorTags == {"google_error", "openrouter:model_error"}

\* The translator reaches its provider: googletrans, or the endpoint with a
\* key.
CanCall ==
  \/ translator.kind = "google"
  \/ translator.kind = "openrouter" /\ translator.api_key \notin {None, ""}

\* C2: translate_batch never raises and returns one result per input text,
\* in input order, result i carrying texts[i] as original_text; a text whose
\* provider call failed gets its original text as translated_text, and the
\* other texts get what translate returns for them with a working provider.
C2_BatchCompleteAndIsolated ==
  IsBatch =>
    /\ tcall.raised = None
    /\ Len(tcall.result) = Len(tcall.texts)
    /\ \A i \in 1..Len(tcall.texts) :
         LET r == tcall.result[i] IN
         /\ r.original_text = tcall.texts[i]
         /\ r.provider \in ErrorTags => r.translated_text = tcall.texts[i]
         /\ r.provider \notin ErrorTags =>
              r = TranslateOf(translator, tcall.texts[i], AllOk(tcall.mode),
                              0).result
    /\ CanCall =>
         Cardinality({i \in 1..Len(tlog) : tlog[i].ev = "call" /\ ~tlog[i].ok})
         = Cardinality({i \in 1..Len(tcall.result) :
                          tcall.result[i].provider \in ErrorTags})

\* A batch in which one text failed and another was translated.
C2_Witness ==
  /\ IsBatch /\ ProviderFailed
  /\ \E i, j \in 1..Len(tcall.result) :
       /\ tcall.result[i].provider \in ErrorTags
       /\ tcall.result[i].translated_text = tcall.texts[i]
       /\ tcall.result[j].provider \notin ErrorTags
       /\ tcall.result[j].translated_text # tcall.texts[j]
       /\ i < j

\* C3: for an empty or whitespace-only text translate returns at once, with
\* translated_text equal to original_text (the input) and no provider call.
\* The code returns translated_text "" (translator.py lines 179-186 and
\* 349-356), which differs from a text of whitespace.
C3_BlankReturnsOriginal ==
  (IsTranslate /\ Strip(tcall.text) = <<>>)
    => /\ tcall.raised = None
       /\ tcall.result.original_text = tcall.text
       /\ tcall.result.translated_text = tcall.result.original_text
       /\ tlog = <<>>

\* C4: every chunk _split_text returns is at most max_length long.  A
\* sentence longer than max_length is returned whole (translator.py lines
\* 122-131), and GoogleTranslator.translate does not split at all.
C4_ChunksWithinMaxLength ==
  IsSplit =>
    \A k \in 1..Len(tcall.result) : Len(tcall.result[k]) <= tcall.max_length

\* C5: for a text longer than the maximum, splitting, translating each
\* chunk with the identity and rejoining gives back the text, newlines
\* included (stated for the texts that reach the provider).  _split_text
\* drops the whitespace between sentences and strips every chunk, and
\* OpenRouterTranslator.translate always joins with a space (translator.py
\* lines 119, 127, 408).
C5_ChunkRoundTrip ==
  ( /\ IsTranslate /\ translator.kind = "openrouter"
    /\ tcall.mode = "ident" /\ tcall.raised = None
    /\ Len(tcall.text) > ChunkLimit /\ CallCount(tlog) >= 1 )
    => tcall.result.translated_text = tcall.text

\* text.split(): the maximal runs of characters that are not whitespace.
RECURSIVE TokensFrom(_, _, _)
TokensFrom(s, i, cur) ==
  IF i > Len(s) THEN (IF cur = <<>> THEN <<>> ELSE <<cur>>)
  ELSE IF IsSpace(s[i])
       THEN (IF cur = <<>> THEN <<>> ELSE <<cur>>) \o TokensFrom(s, i + 1, <<>>)
       ELSE TokensFrom(s, i + 1, Append(cur, s[i]))
Tokens(s) == TokensFrom(s, 1, <<>>)

\* C30: _split_text returns at least one chunk, the tokens of the chunks in
\* chunk order are the tokens of the text in order, and no chunk is empty
\* when the text is not blank.  When the text ends in whitespace after a
\* sentence end re.split gives a last, empty sentence; it becomes the chunk
\* " " (translator.py lines 122-131), which is appended stripped, as "".
C30_SplitLosesNothing ==
  IsSplit =>
    /\ Len(tcall.result) >= 1
    /\ Concat([k \in 1..Len(tcall.result) |-> Tokens(tcall.result[k])])
         = Tokens(tcall.text)
    /\ Strip(tcall.text) # <<>> =>
         \A k \in 1..Len(tcall.result) : tcall.result[k] # <<>>

\* C14: a missing API key for the OpenRouter variant fails at construction:
\* no OpenRouterTranslator without a key is ever constructed,
\* create_translator("openrouter", None) raises, and translate never has to
\* raise for the missing key.  OpenRouterTranslator.__init__ stores None
\* without a test (translator.py lines 266-289) and translate raises the
\* ValueError later (lines 358-359).
C14_MissingKeyFailsAtConstruction ==
  /\ translator.kind = "openrouter" => translator.api_key # None
  /\ ( /\ tcall.op = "create_translator"
       /\ Lower(tcall.provider) = "openrouter" /\ tcall.api_key = None )
       => tcall.raised = "ValueError"
  /\ IsTranslate => tcall.raised # "ValueError"

\* The attempts of the last service call on the named provider.
AttemptsOn(provider) ==
  {i \in 1..Len(scall.attempts) : scall.attempts[i].provider = provider}

\* C15: a translate call of the fallback service makes at most two provider
\* attempts, at most one on each provider; the secondary is tried exactly
\* when the primary failed, at construction or at the call, after the
\* primary and with the same text.
C15_FallbackAtMostOnce ==
  (scall.op = "translate") =>
    /\ Len(scall.attempts) <= 2
    /\ Cardinality(AttemptsOn("primary")) <= 1
    /\ Cardinality(AttemptsOn("secondary")) <= 1
    /\ \A i \in 1..Len(scall.attempts) : scall.attempts[i].text = scall.text
    /\ (AttemptsOn("secondary") # {})
         <=> ( \/ ~service.primary_constructed
               \/ \E i \in AttemptsOn("primary") : ~scall.attempts[i].ok )
    /\ \A i \in AttemptsOn("primary"), j \in AttemptsOn("secondary") : i < j

\* The primary's call failed and the secondary translated the text.
C15_Witness ==
  /\ scall.op = "translate" /\ service.primary_constructed
  /\ Len(scall.attempts) = 2
  /\ ~scall.attempts[1].ok /\ scall.attempts[2].ok
  /\ scall.attempts[2].provider = "secondary"
  /\ scall.result.provider = "secondary"
  /\ scall.text = <<"a">> /\ scall.result.translated_text = <<"A">>

\* The delay the translator instance applies between provider calls.
DelayOf(tr) == IF tr.kind = "google" THEN GoogleDelayMs ELSE RATE_LIMIT_DELAY

\* C17: between any two consecutive provider calls of one translate or
\* translate_batch the translator's delay is slept, whatever the outcome of
\* the earlier call.  Both classes sleep inside the try block, after a call
\* that succeeded (translator.py lines 243 and 399); after a failed call
\* translate_batch goes on to the next text without a sleep.
C17_DelayBetweenCalls ==
  (IsTranslate \/ IsBatch) =>
    \A i, j \in 1..Len(tlog) :
      (i < j /\ tlog[i].ev = "call" /\ tlog[j].ev = "call") =>
        \E k \in (i + 1)..(j - 1) :
          tlog[k].ev = "sleep" /\ tlog[k].ms = DelayOf(translator)

\* The texts of the provider calls of the last operation, in call order.
RECURSIVE SentTexts(_)
SentTexts(log) ==
  IF log = <<>> THEN <<>>
  ELSE (IF Head(log).ev = "call" THEN <<Head(log).text>> ELSE <<>>)
       \o SentTexts(Tail(log))

\* C18: when OpenRouterTranslator.translate translates a text in chunks, the
\* provider is sent the chunks of the split in split order, each once, and
\* the translated text is their translations joined in that order.
C18_ChunksInSplitOrder ==
  ( /\ IsTranslate /\ translator.kind = "openrouter"
    /\ tcall.raised = None /\ CallCount(tlog) >= 1 ) =>
    LET sent == SentTexts(tlog) IN
    /\ sent = SplitText(tcall.text, ChunkLimit)
    /\ tcall.result.translated_text
         = Join(<<" ">>,
                [k \in 1..Len(sent) |-> Strip(Respond(tcall.mode, sent[k]))])

\* "a. ." went out as the chunks "a." and "." and came back as "A. .".
C18_Witness ==
  /\ IsTranslate /\ translator.kind = "openrouter"
  /\ tcall.text = <<"a", ".", " ", ".">> /\ tcall.mode = "upper"
  /\ SentTexts(tlog) = << <<"a", ".">>, <<".">> >>
  /\ tcall.raised = None
  /\ tcall.result.translated_text = <<"A", ".", " ", ".">>

(***************************************************************************)
(* Properties of PdfExtractor, checked under SpecExtractor.                *)
(***************************************************************************)
ExtractedPage ==
  ecall.op = "extract_page_content" /\ ecall.raised = None

\* C6: the text_blocks of the PageContent extract_page_content returns are
\* sorted by (y0, x0) ascending, whatever the order of the raw blocks.
C6_TextBlocksSorted ==
  ExtractedPage =>
    \A i, j \in 1..Len(ecall.result.text_blocks) :
      i < j =>
        LET a == ecall.result.text_blocks[i]
            b == ecall.result.text_blocks[j]
        IN a.y0 < b.y0 \/ (a.y0 = b.y0 /\ a.x0 <= b.x0)

\* A page was extracted whose raw text blocks the reader returned out of
\* reading order.
C6_Witness ==
  /\ ExtractedPage
  /\ Len(ecall.result.text_blocks) >= 2
  /\ LET raw == disk[ecall.arg + 1].blocks IN
     \E i, j \in 1..Len(raw) :
       /\ i < j /\ raw[i].lines /\ raw[j].lines
       /\ raw[i].spans # <<>> /\ raw[j].spans # <<>>
       /\ raw[j].y0 < raw[i].y0 /\ raw[j].x0 > raw[i].x0

\* The characters of text between its first and last non-whitespace one.
TrimmedLen(text) ==
  LET inked == {i \in 1..Len(text) : ~IsSpace(text[i])} IN
  IF inked = {} THEN 0
  ELSE (CHOOSE hi \in inked : \A i \in inked : i <= hi)
       - (CHOOSE lo \in inked : \A i \in inked : lo <= i) + 1

\* The trimmed text lengths of the first n pages of doc, added up.
RECURSIVE TextTotal(_, _)
TextTotal(doc, n) ==
  IF n = 0 THEN 0 ELSE TextTotal(doc, n - 1) + TrimmedLen(doc[n].text)

\* The image counts of the first n pages of doc, added up.
RECURSIVE ImageTotal(_, _)
ImageTotal(doc, n) ==
  IF n = 0 THEN 0 ELSE ImageTotal(doc, n - 1) + doc[n].images

\* C7: on an open document is_scanned reads the first
\* n = min(sample_pages, page_count) pages only and, for n >= 1, returns
\* true exactly when their trimmed text lengths average below 100 and their
\* image counts average above 0.
C7_ScanRule ==
  (ecall.op = "is_scanned" /\ extractor.doc # None) =>
    LET n == IF ecall.arg <= Len(disk) THEN ecall.arg ELSE Len(disk) IN
    n >= 1 =>
      /\ ecall.raised = None
      /\ ecall.result
           = ( /\ TextTotal(disk, n) < ScanTextThreshold * n
               /\ ImageTotal(disk, n) > 0 )

\* is_scanned answered true from the first page alone, the page after the
\* sample holding more text than the threshold and no image.
C7_Witness ==
  /\ ecall.op = "is_scanned" /\ extractor.doc # None
  /\ ecall.raised = None /\ ecall.result = TRUE
  /\ ecall.arg = 1 /\ Len(disk) = 2
  /\ TrimmedLen(disk[2].text) > ScanTextThreshold /\ disk[2].images = 0

\* page_number is outside [0, page_count).
OutOfRange(page_number) == page_number < 0 \/ page_number >= PageCount

\* C19: on an open document an index outside [0, page_count) makes the
\* operation fail with the range error (ValueError) and return no content:
\* extract_page_content, render_page_to_image, and extract_text for each index
\* of its page_numbers list.  extract_text logs a warning and skips the index
\* (pdf_extractor.py lines 195-198): it raises nothing and returns the text
\* of the other pages.
C19_OutOfRangeRaises ==
  extractor.doc # None =>
    /\ ( /\ ecall.op \in {"extract_page_content", "render_page_to_image"}
         /\ OutOfRange(ecall.arg) )
         => (ecall.raised = "ValueError" /\ ecall.result = None)
    /\ ( /\ ecall.op = "extract_text" /\ ~ecall.arg.all_pages
         /\ \E k \in 1..Len(ecall.arg.page_numbers) :
              OutOfRange(ecall.arg.page_numbers[k]) )
         => (ecall.raised = "ValueError" /\ ecall.result = None)

\* C20: open of a path that does not exist raises FileNotFoundError and open
\* of a file the reader cannot parse raises ValueError; either way the step
\* leaves the extractor and its handles as they were, so that no new document
\* is open and page_count still raises when nothing was open before.
C20_FailedOpenLeavesState ==
  [][ (ecall = NoCall /\ ecall'.op = "open" /\ ecall'.arg # "doc.pdf") =>
        /\ ecall'.arg = "missing.pdf" => ecall'.raised = "FileNotFoundError"
        /\ ecall'.arg = "garbage.pdf" => ecall'.raised = "ValueError"
        /\ extractor' = extractor
        /\ handles' = handles
        /\ extractor.doc = None =>
             PageCountOf(extractor', disk').raised = "RuntimeError" ]_vars

\* A failed open of an unparseable file on an extractor with nothing open.
C20_Witness ==
  /\ ecall.op = "open" /\ ecall.arg = "garbage.pdf"
  /\ ecall.raised = "ValueError"
  /\ extractor.doc = None /\ handles = 0

\* C21: no TextBlock of a PageContent returned by extract_page_content has
\* empty text, so that has_text is true only when full_text holds a character
\* that is not whitespace.  The code drops a block only when it has no span
\* (pdf_extractor.py line 252): a block whose spans join to whitespace stays,
\* with the empty text.
C21_NoEmptyTextBlock ==
  (ecall.op = "extract_page_content" /\ ecall.raised = None) =>
    LET page_content == ecall.result
        full_text == FullText(page_content)
    IN /\ \A i \in 1..Len(page_content.text_blocks) :
            page_content.text_blocks[i].text # <<>>
       /\ HasText(page_content) =>
            \E i \in 1..Len(full_text) : ~IsSpace(full_text[i])

\* C26: whatever the sequence of open and close calls on one PdfExtractor,
\* at most one document it opened is unclosed, and none after close.  open
\* assigns self._doc without closing the document it held (pdf_extractor.py
\* line 108), so a second open leaves the first document open for good.
C26_AtMostOneHandle ==
  /\ handles <= 1
  /\ ecall.op = "close" => handles = 0

\* The operations that need an open document.
NeedsDocument ==
  {"page_count", "metadata", "is_scanned", "extract_text",
   "extract_page_content", "extract_images", "render_page_to_image",
   "get_fonts", "search_text"}

\* C27: with no document open each of the operations that need one raises
\* RuntimeError and leaves the extractor as it was; close raises nothing and
\* always ends in the no-document state, which is where leaving a with-block
\* ends too (__exit__ calls close).  close tests "if self._doc"
\* (pdf_extractor.py line 118), which is false for a document of no pages:
\* that document stays open after close.
C27_TwoStateMachine ==
  [][ /\ ( /\ ecall = NoCall /\ ecall'.op \in NeedsDocument
           /\ extractor.doc = None ) =>
             /\ ecall'.raised = "RuntimeError"
             /\ extractor' = extractor /\ handles' = handles /\ disk' = disk
      /\ (ecall = NoCall /\ ecall'.op = "close") =>
             /\ ecall'.raised = None
             /\ extractor' = [doc |-> None, file_path |-> None]
             /\ extractor.doc = None => handles' = handles ]_vars

\* C29: on an open document is_scanned returns a boolean for every
\* sample_pages >= 0 and every page count, zero included, and changes
\* neither the extractor nor the document.  With no page sampled
\* text_counts is empty and "sum(text_counts) / len(text_counts)"
\* (pdf_extractor.py line 169) divides by zero.
C29_IsScannedTotal ==
  [][ ( /\ ecall = NoCall /\ ecall'.op = "is_scanned"
        /\ extractor.doc # None ) =>
          /\ ecall'.raised = None
          /\ ecall'.result \in BOOLEAN
          /\ extractor' = extractor /\ disk' = disk /\ handles' = handles
    ]_vars

(***************************************************************************)
(* Properties of BilingualGenerator, checked under SpecGenerator.          *)
(***************************************************************************)
IsGenerate == gcall.op = "generate"

\* C8: generate with a layout that is none of side_by_side, line_by_line,
\* overlay raises the unsupported-layout error (ValueError) before any
\* output: no generator method runs and the file at output_path is neither
\* created nor modified.
C8_InvalidLayoutRejected ==
  (IsGenerate /\ gcall.layout \notin {"side_by_side", "line_by_line", "overlay"})
    => /\ gcall.raised = "ValueError"
       /\ gcall.ran = <<>>
       /\ outFile = gcall.before

\* The layout "triangle" was refused and there is still no output file.
C8_Witness ==
  /\ IsGenerate /\ gcall.layout = "triangle"
  /\ gcall.raised = "ValueError" /\ outFile = NoFile
  /\ Len(gcall.original_pages) >= 1

\* C9: generate with layout overlay and no original_pdf_path raises the
\* missing-input error (ValueError) before any output, whatever the page
\* lists hold.
C9_OverlayNeedsOriginal ==
  (IsGenerate /\ gcall.layout = "overlay" /\ gcall.original_pdf_path = None)
    => /\ gcall.raised = "ValueError"
       /\ gcall.ran = <<>>
       /\ outFile = gcall.before

\* Overlay was refused for want of the original PDF, with translated pages
\* at hand and no original pages.
C9_Witness ==
  /\ IsGenerate /\ gcall.layout = "overlay"
  /\ gcall.original_pdf_path = None
  /\ gcall.raised = "ValueError" /\ outFile = gcall.before
  /\ gcall.original_pages = <<>> /\ Len(gcall.translated_pages) >= 1

IsLine(flowable) ==
  flowable.kind = "Paragraph"
  /\ flowable.style \in {"OriginalLine", "TranslatedLine"}

\* The flowables of story after its k-th page heading and before the next.
RECURSIVE Section(_, _)
Section(story, k) ==
  IF story = <<>> THEN <<>>
  ELSE IF Head(story).style = "Heading2"
       THEN IF k = 0 THEN <<>> ELSE Section(Tail(story), k - 1)
       ELSE IF k = 0 THEN <<Head(story)>> \o Section(Tail(story), 0)
            ELSE Section(Tail(story), k)

Headings(story) ==
  Cardinality({i \in 1..Len(story) : story[i].style = "Heading2"})

NonBlank(line) == \E i \in 1..Len(line) : ~IsSpace(line[i])

\* For i = 0 .. max(len) - 1: original line i, then translated line i, each
\* only if present and non-blank.
ExpectedLines(orig, trans) ==
  LET ol == SplitOn(orig, NL, 1, <<>>)
      tl == SplitOn(trans, NL, 1, <<>>)
      n == IF Len(ol) >= Len(tl) THEN Len(ol) ELSE Len(tl)
      slot(k) ==
        LET i == (k + 1) \div 2
            lines == IF k % 2 = 1 THEN ol ELSE tl
        IN [present |-> i <= Len(lines) /\ NonBlank(lines[i]),
            text |-> IF i <= Len(lines) THEN lines[i] ELSE <<>>,
            style |-> IF k % 2 = 1 THEN "OriginalLine" ELSE "TranslatedLine"]
      kept(s) == s.present
      slots == SelectSeq([k \in 1..(2 * n) |-> slot(k)], kept)
  IN [k \in 1..Len(slots) |-> Paragraph(slots[k].text, slots[k].style)]

\* The lines of "A\nB" and "X\n\nY" interleaved.
ExampleLines ==
  SelectSeq(LineByLineLoop(<< <<"A", NL, "B">> >>,
                           << <<"X", NL, NL, "Y">> >>, 0, <<>>),
            IsLine)

\* C10: in the line_by_line layout the lines emitted for a page are, for
\* i = 0 .. max(len(original_lines), len(translated_lines)) - 1, original
\* line i then translated line i, each if present and non-blank; no blank
\* line is emitted; "A\nB" with "X\n\nY" gives A, X, B, Y.
C10_LinesInterleaved ==
  (IsGenerate /\ gcall.layout = "line_by_line") =>
    /\ gcall.raised = None
    /\ outFile.kind = "pdf"
    /\ \A p \in 1..Headings(outFile.content) :
         SelectSeq(Section(outFile.content, p), IsLine)
           = ExpectedLines(gcall.original_pages[p], gcall.translated_pages[p])
    /\ \A k \in 1..Len(outFile.content) :
         IsLine(outFile.content[k]) => NonBlank(outFile.content[k].text)
    /\ ExampleLines
         = << Paragraph(<<"A">>, "OriginalLine"),
              Paragraph(<<"X">>, "TranslatedLine"),
              Paragraph(<<"B">>, "OriginalLine"),
              Paragraph(<<"Y">>, "TranslatedLine") >>

\* A page was interleaved whose translation has a blank middle line and one
\* line more than the original: a "a\na" against "a\n\na".
C10_Witness ==
  /\ IsGenerate /\ gcall.layout = "line_by_line"
  /\ gcall.original_pages = << <<"a", NL, "a">> >>
  /\ gcall.translated_pages = << <<"a", NL, NL, "a">> >>
  /\ SelectSeq(outFile.content, IsLine)
       = << Paragraph(<<"a">>, "OriginalLine"),
            Paragraph(<<"a">>, "TranslatedLine"),
            Paragraph(<<"a">>, "OriginalLine"),
            Paragraph(<<"a">>, "TranslatedLine") >>

\* The pages generate_side_by_side emitted: one title paragraph each.
PagesEmitted(story) ==
  Cardinality({i \in 1..Len(story) : story[i].style = "BilingualTitle"})

\* C11: the side_by_side output is, for each emitted page k in input order,
\* the header "Page k", the full original text of page k, the full
\* translated text of page k and then a page break, the page break following
\* every emitted page but the last.  With more original pages than
\* translated ones zip stops early while the break test still counts the
\* original pages (bilingual_generator.py lines 129 and 144), and the last
\* emitted page is followed by a page break.
C11_SideBySidePages ==
  (IsGenerate /\ gcall.layout = "side_by_side") =>
    /\ gcall.raised = None
    /\ outFile.kind = "pdf"
    /\ LET story == outFile.content
           n == PagesEmitted(story)
       IN /\ Len(story) = IF n = 0 THEN 0 ELSE 8 * n - 1
          /\ \A k \in 1..n :
               LET at == 8 * (k - 1) IN
               /\ story[at + 1] = Paragraph(PageLabel(k - 1), "BilingualTitle")
               /\ story[at + 4]
                    = Paragraph(ReplaceNewlines(gcall.original_pages[k]),
                                "OriginalText")
               /\ story[at + 7]
                    = Paragraph(ReplaceNewlines(gcall.translated_pages[k]),
                                "TranslatedText")
               /\ k < n => story[at + 8] = PageBreak

\* C24: in the overlay layout the output has the pages of the original PDF
\* in their order, page i carries the one text box of translated_pages[i],
\* and every translated page text is on some output page.  The loop runs
\* over the pages of the original PDF only (bilingual_generator.py lines
\* 246-265): a translated page beyond them is placed nowhere.
C24_OverlayPlacesEveryText ==
  ( /\ gcall.op = "generate" /\ gcall.raised = None
    /\ gcall.ran = <<"generate_overlay_pdf">> ) =>
      LET pages == outFile.content
          translated_pages == gcall.translated_pages
      IN /\ \A p \in 1..Len(pages) :
              /\ pages[p].source_page = p - 1
              /\ p <= Len(translated_pages) =>
                   pages[p].textbox = <<translated_pages[p]>>
         /\ \A k \in 1..Len(translated_pages) :
              k <= Len(pages) /\ pages[k].textbox = <<translated_pages[k]>>

\* C25: generate_side_by_side and generate_line_by_line emit one page
\* section per input page, whatever the lengths of original_pages and
\* translated_pages.  Both loop over zip(original_pages, translated_pages)
\* (bilingual_generator.py lines 129 and 202), which stops at the shorter
\* list: the pages the longer list has beyond it get no section.
C25_SectionForEveryPage ==
  ( /\ IsGenerate /\ gcall.raised = None
    /\ gcall.layout \in {"side_by_side", "line_by_line"} ) =>
      LET sections == IF gcall.layout = "side_by_side"
                      THEN PagesEmitted(outFile.content)
                      ELSE Headings(outFile.content)
      IN /\ sections >= Len(gcall.original_pages)
         /\ sections >= Len(gcall.translated_pages)
         /\ sections <= Max(Len(gcall.original_pages),
                            Len(gcall.translated_pages))

(***************************************************************************)
(* Properties of OcrEngine, checked under SpecOcr.                         *)
(***************************************************************************)
\* The engine call of the last OCR operation raised.
EngineFailed ==
  \E i \in 1..Len(ocall.calls) : ~ocall.calls[i].ok

\* C12: when the engine call raises, recognize returns the empty result
\* (text "", confidence 0) and recognize_with_boxes the empty list, neither
\* raising; process_scanned_pdf returns one text per page image, in page
\* order, "" for a page whose engine call raised and the recognized text for
\* the others.
C12_OcrFailsSoftly ==
  /\ (ocall.op = "recognize" /\ EngineFailed) =>
       /\ ocall.raised = None
       /\ ocall.result.text = <<>>
       /\ ocall.result.confidence = ZeroConfidence
  /\ (ocall.op = "recognize_with_boxes" /\ EngineFailed) =>
       /\ ocall.raised = None
       /\ ocall.result = <<>>
  /\ ocall.op = "process_scanned_pdf" =>
       /\ ocall.raised = None
       /\ Len(ocall.result) = Len(ocall.image)
       /\ Len(ocall.calls) = Len(ocall.image)
       /\ \A i \in 1..Len(ocall.image) :
            IF ocall.calls[i].ok
            THEN ocall.result[i]
                   = RecognizeOf(ocr, ocall.image[i], ocall.lang).result.text
            ELSE ocall.result[i] = <<>>

\* Two pages were processed, the engine call raised on the first and the
\* second was read.
C12_Witness ==
  /\ ocall.op = "process_scanned_pdf"
  /\ Len(ocall.image) = 2
  /\ ~ocall.calls[1].ok /\ ocall.calls[2].ok
  /\ ocall.result = << <<>>, <<"a">> >>

TesseractCode(lang) ==
  CASE lang = "zh-CN" -> "chi_sim"
    [] lang = "zh-TW" -> "chi_tra"
    [] lang = "en" -> "eng"
    [] lang = "ja" -> "jpn"
    [] lang = "ko" -> "kor"
    [] lang = "auto" -> "eng+chi_sim+chi_tra+jpn+kor"
    [] OTHER -> lang

\* C22: when recognize or recognize_with_boxes is given a language, the one
\* engine call it makes carries the mapped code: chi_sim for zh-CN, chi_tra
\* for zh-TW, eng for en, jpn for ja, kor for ko, and a code outside the
\* table as it is.
C22_MappedLanguageReachesEngine ==
  ( /\ ocall.op \in {"recognize", "recognize_with_boxes"}
    /\ ocall.lang \notin {None, ""}
    /\ ocall.image.kind = "pil" ) =>
      /\ Len(ocall.calls) = 1
      /\ ocall.calls[1].lang = TesseractCode(ocall.lang)

\* recognize_with_boxes was given zh-TW and the engine was asked for chi_tra.
C22_Witness ==
  /\ ocall.op = "recognize_with_boxes" /\ ocall.lang = "zh-TW"
  /\ ocall.image.kind = "pil"
  /\ ocall.calls = <<EngineCall("chi_tra", TRUE)>>

\* The row's text has a character that is not whitespace.
IsWord(row) == \E i \in 1..Len(row.text) : ~IsSpace(row.text[i])
IsWordAboveFloor(row) == IsWord(row) /\ row.conf > 0

\* C23: recognize_with_boxes returns, in the engine's order, exactly the rows
\* that are non-blank words of confidence above 0, each with the box
\* (left, top, left + width, top + height); recognize has no floor and its
\* text is every non-blank word, whatever its confidence, joined by spaces.
C23_BoxesAboveFloorInOrder ==
  /\ ( /\ ocall.op = "recognize_with_boxes" /\ ocall.image.kind = "pil"
       /\ ~ocall.image.fails ) =>
       LET words == SelectSeq(ocall.image.data, IsWordAboveFloor) IN
       /\ ocall.raised = None
       /\ Len(ocall.result) = Len(words)
       /\ \A i \in 1..Len(words) :
            /\ ocall.result[i].text = words[i].text
            /\ ocall.result[i].confidence = Confidence(words[i].conf, 1)
            /\ ocall.result[i].bounding_box
                 = <<words[i].left, words[i].top,
                     words[i].left + words[i].width,
                     words[i].top + words[i].height>>
  /\ ( /\ ocall.op = "recognize" /\ ocall.image.kind = "pil"
       /\ ~ocall.image.fails ) =>
       LET words == SelectSeq(ocall.image.data, IsWord) IN
       /\ ocall.raised = None
       /\ ocall.result.text
            = Join(<<" ">>, [i \in 1..Len(words) |-> words[i].text])

\* The engine gave "a" at confidence 0 and then "b" at 90: the boxes are
\* those of "b" alone.
C23_Witness ==
  /\ ocall.op = "recognize_with_boxes"
  /\ ocall.image = PilImage(FALSE, <<Row(<<"a">>, 0), Row(<<"b">>, 90)>>)
  /\ Len(ocall.result) = 1
  /\ ocall.result[1].text = <<"b">>

(***************************************************************************)
(* Properties of the front ends, checked under SpecFrontEnd.               *)
(***************************************************************************)
\* C16: when a front-end operation returns, every document it opened with
\* PdfExtractor.open has been closed, on the success path and on every error
\* path.  ocr_command never calls close (cli/__init__.py lines 150-191), and
\* the web handlers call it at the end of the try block only (web/app.py
\* lines 96, 159, 230, 297), so an error after open leaves the document
\* open.
C16_HandleClosedOnEveryPath ==
  fcall.op # None => fcall.closed = fcall.opened

\* C28: a web handler that saved the upload in a temporary file has deleted
\* it by the time it answers, on the success path and on every error path.
\* os.unlink(tmp_path) is the last statement but one of the try block
\* (web/app.py lines 99, 182, 231, 310) and no except or finally clause
\* deletes the file: an error after the upload was saved leaves it behind.
C28_TempFileDeleted ==
  fcall.op \in {"api_extract", "api_translate", "api_ocr", "upload"} =>
    fcall.unlinked = fcall.saved

\* The OCR engine out of the picture, Tesseract installed.
OQuiet == tesseract = TRUE /\ ocr = NoInstance /\ ocall = NoCall

\* The translators alone: no PDF, no generator.
InitTranslator ==
  TInit /\ EInit /\ disk = <<>> /\ GInit /\ OQuiet /\ FInit /\ SInit
SpecTranslator == InitTranslator /\ [][TNext]_vars

\* The extractor alone, over every PDF of Docs.
InitExtractor ==
  TInit /\ EInit /\ disk \in Docs /\ GInit /\ OQuiet /\ FInit /\ SInit
SpecExtractor == InitExtractor /\ [][ENext]_vars

\* The generator alone, with and without a file at output_path.
InitGenerator ==
  TInit /\ EInit /\ disk = <<>> /\ outFile \in {NoFile, Existing}
  /\ gcall = NoCall /\ OQuiet /\ FInit /\ SInit
SpecGenerator == InitGenerator /\ [][GNext]_vars

\* The OCR engine alone, with and without Tesseract installed.
InitOcr ==
  TInit /\ EInit /\ disk = <<>> /\ GInit /\ OInit /\ FInit /\ SInit
SpecOcr == InitOcr /\ [][ONext]_vars

\* The fallback service alone.
InitService ==
  TInit /\ EInit /\ disk = <<>> /\ GInit /\ OQuiet /\ FInit /\ SInit
SpecService == InitService /\ [][SNext]_vars

\* The front ends alone, in a process that holds no document yet.
InitFrontEnd ==
  TInit /\ EInit /\ disk = <<>> /\ GInit /\ OQuiet /\ FInit /\ SInit
SpecFrontEnd == InitFrontEnd /\ [][FNext]_vars

====
